---- MODULE Spec2Model ----
(***************************************************************************)
(* Beckhoff BIOS API character driver (src/api.c): discovery of the BIOS   *)
(* image (bbapi_find_bios, bbapi_copy_bios), the call gateway, and the     *)
(* module's load and unload (bbapi_init_module, bbapi_exit).               *)
(*                                                                         *)
(* The model follows g_bbapi (entry pointer, mutex, the two scratch        *)
(* buffers in/out), the external path bbapi_ioctl -> bbapi_ioctl_mutexed   *)
(* -> bbapi_call and the internal path bbapi_rw (bbapi_read, bbapi_write,  *)
(* bbapi_supports) -> bbapi_call, each caller being a thread whose         *)
(* position is pc[p].  The firmware behind bbapi_call is a black box: it   *)
(* returns any status of FwStatuses, reports any byte count and writes     *)
(* into the output buffer it was handed.                                   *)
(***************************************************************************)
EXTENDS Integers, Sequences, FiniteSets, TLC

(***************************************************************************)
(* Bounds of the model.                                                    *)
(***************************************************************************)
NProcs == 2          \* concurrent callers
sizeof_in == 1       \* sizeof(bbapi->in), scaled down
sizeof_out == 1      \* sizeof(bbapi->out), scaled down
MaxByte == 1         \* payload bytes are 0..MaxByte
BBIOSAPI_SIGNATURE_SEARCH_AREA == 64   \* maximum of the search window, scaled down

Procs == 1..NProcs
Bytes == 0..MaxByte

(***************************************************************************)
(* 32-bit words, kept as <<high half, low half>> of 16 bits each, so that  *)
(* unsigned negation and bitwise or are computed at their width.           *)
(***************************************************************************)
W16 == 256 * 256

U32(n) == <<n \div W16, n % W16>>

RECURSIVE Or16(_, _)
Or16(a, b) ==
    IF a = 0 THEN b
    ELSE IF b = 0 THEN a
    ELSE (IF a % 2 = 1 \/ b % 2 = 1 THEN 1 ELSE 0) + 2 * Or16(a \div 2, b \div 2)

Or32(x, y) == <<Or16(x[1], y[1]), Or16(x[2], y[2])>>

\* unary minus of an unsigned int: 2^32 - x (mod 2^32)
Neg32(x) ==
    IF x[2] = 0 THEN <<(W16 - x[1]) % W16, 0>>
    ELSE <<W16 - 1 - x[1], W16 - x[2]>>

Add32(x, n) ==
    LET lo == x[2] + n
    IN  <<(x[1] + lo \div W16) % W16, lo % W16>>

\* x >> n for 0 <= n <= 16, as a number (below 2^32 / 2^n)
Shr32(x, n) == x[1] * (W16 \div 2 ^ n) + x[2] \div 2 ^ n

ZERO32 == U32(0)

(***************************************************************************)
(* Program constants.                                                      *)
(***************************************************************************)
NULL == "NULL"
USER == "USER"                  \* a pointer into mapped caller memory
IMAGE == "IMAGE"                \* a pointer into the shadowed firmware image
BAD == "BAD"                    \* a non-null pointer to no caller memory
EINVAL == 22
EACCES == 13
EFAULT == 14
ENOMEM == 12
STEP_SIZE == 16                 \* 0x10
IMAGE_MARGIN == 4096            \* size = offset + 4096
PAGE_SHIFT == 12                \* 4 KiB pages
ACCESS_THRESHOLD == 176         \* 0xB0
BBAPI_CMD == "BBAPI_CMD"
BBAPI_CMD_LEGACY == "BBAPI_CMD_LEGACY"

\* The builds api.c tells apart: BIOSAPIERR_OFFSET > 0, and the legacy mode.
BuildOffsets == {<<8192, 0>>, ZERO32}

\* Return codes of TcBaDevDef.h: the raw firmware status with the offset.
BIOSAPI_SRVNOTSUPP(off) == Add32(off, 1)
BIOSAPI_INVALIDSIZE(off) == Add32(off, 2)
BIOSAPI_INVALIDPARM(off) == Add32(off, 3)

\* Raw statuses the firmware answers with.
FwStatuses == {U32(0), U32(1), U32(2), U32(3), U32(22), <<8192, 2>>}

VARIABLES
    BIOSAPIERR_OFFSET,  \* the build's offset constant
    entry,              \* g_bbapi.entry
    mutex,              \* g_bbapi.mutex: 0 when free, else its holder
    bbapi_in,           \* g_bbapi.in
    bbapi_out,          \* g_bbapi.out
    pc,                 \* position of each caller
    call,               \* the call as the caller issued it
    bbstruct,           \* bbapi_ioctl's bbstruct / bbapi_rw's cmd
    ret,                \* the firmware status (ret / result)
    written,            \* the byte count the firmware reported
    result,             \* the value the call returned
    supported,          \* what bbapi_supports returned
    user_out,           \* the caller's output buffer
    user_bytes,         \* the caller's bytes-written destination
    fw_active,          \* callers inside the firmware
    eff,                \* what the current (last) call of each caller did
    g_bbapi_search_area,\* the module parameter search_area
    flash,              \* the bytes at BBIOSAPI_SIGNATURE_PHYS_START_ADDR
    memory,             \* g_bbapi.memory
    boot,               \* what bbapi_find_bios did and returned
    unload,             \* progress of bbapi_exit
    life,               \* progress of bbapi_init_module, and the devices
    prev_failed         \* history: the caller's previous call failed in READY

boot_vars == <<g_bbapi_search_area, flash, memory, boot, unload>>

vars == <<prev_failed, life, boot_vars, BIOSAPIERR_OFFSET, entry, mutex, bbapi_in, bbapi_out, pc, call,
          bbstruct, ret, written, result, supported, user_out, user_bytes,
          fw_active, eff>>

(***************************************************************************)
(* Calls a caller can issue.  An external request is the ioctl command and *)
(* the descriptor found in caller memory at arg: argOk says whether that   *)
(* memory can be read, pBytes and pMode are what the full-form fields hold *)
(* (for the short form: what follows the descriptor), data is the payload  *)
(* byte the input buffer is filled with.                                   *)
(***************************************************************************)
Groups == {0, 1}
Offsets == {175, 176, 181}                \* 0xAF, 0xB0, 0xB5
Pointers == {NULL, USER}

IoctlCalls ==
    [path : {"ioctl"}, cmd : {BBAPI_CMD, BBAPI_CMD_LEGACY, "OTHER"},
     argOk : BOOLEAN, group : Groups, offset : Offsets,
     pIn : Pointers, nIn : 0..(sizeof_in + 1),
     pOut : Pointers, nOut : 0..(sizeof_out + 1),
     pBytes : Pointers \cup {BAD}, pMode : Pointers, data : Bytes]

\* The requests callers issue while others are in flight: one refused at
\* the threshold, one valid, one oversized, one whose input and one whose
\* output buffer is no caller memory.
ValidIoctlCall ==
    [path |-> "ioctl", cmd |-> BBAPI_CMD, argOk |-> TRUE, group |-> 0,
     offset |-> 175, pIn |-> USER, nIn |-> sizeof_in,
     pOut |-> USER, nOut |-> sizeof_out,
     pBytes |-> USER, pMode |-> NULL, data |-> MaxByte]

SomeIoctlCalls ==
    {[ValidIoctlCall EXCEPT !.offset = 176],
     ValidIoctlCall,
     [ValidIoctlCall EXCEPT !.nIn = sizeof_in + 1],
     [ValidIoctlCall EXCEPT !.pIn = NULL],
     [ValidIoctlCall EXCEPT !.pOut = NULL]}

\* bbapi_read(group, offset, out, size), bbapi_write(group, offset, in, size)
\* and the zero-length read of bbapi_supports(group, offset).
RwCalls ==
    [path : {"rw"}, cmd : {"bbapi_read", "bbapi_write", "bbapi_supports"},
     argOk : {TRUE}, group : {0}, offset : {255},
     pIn : {NULL}, nIn : {0}, pOut : {NULL}, nOut : {0},
     pBytes : {USER}, pMode : {NULL}, data : {0}]

NoCall ==
    [path |-> "none", cmd |-> "NONE", argOk |-> TRUE, group |-> 0, offset |-> 0,
     pIn |-> NULL, nIn |-> 0, pOut |-> NULL, nOut |-> 0,
     pBytes |-> NULL, pMode |-> NULL, data |-> 0]

NoEff ==
    [entry |-> NULL, locks |-> 0, fw |-> 0, scratch |-> FALSE,
     urd |-> FALSE, uwr |-> FALSE,
     staged |-> <<>>, seen |-> <<>>, left |-> <<>>]

Fill(n, b) == [i \in 1..n |-> b]

\* dst with its first Len(src) bytes replaced by src
Overlay(dst, src) ==
    [i \in 1..Len(dst) |-> IF i <= Len(src) THEN src[i] ELSE dst[i]]

Prefix(s, n) == [i \in 1..n |-> s[i]]

Min(a, b) == IF a < b THEN a ELSE b

(***************************************************************************)
(* Discovery: the flash window, the signature scan of bbapi_find_bios and  *)
(* the shadow copy of bbapi_copy_bios.                                     *)
(***************************************************************************)
ALLOCATED == "ALLOCATED"        \* a pointer to a live vmalloc area
FREED == "FREED"                \* a pointer to an area that was vfree'd

\* "BBAPIX64", the signature of the x86_64 build: <<high word, low word>>
BBIOSAPI_SIGNATURE == <<<<13366, 22601>>, <<20545, 16962>>>>

\* byte k (0 the lowest) of a 32-bit word
Byte32(w, k) ==
    IF k = 0 THEN w[2] % 256
    ELSE IF k = 1 THEN w[2] \div 256
    ELSE IF k = 2 THEN w[1] % 256
    ELSE w[1] \div 256

\* the byte at offset i of the flash; past its end nothing answers
ioread8(fl, i) == IF i >= 0 /\ i < Len(fl) THEN fl[i + 1] ELSE 255

\* a little-endian 32-bit read at offset pos
ioread32(fl, pos) ==
    <<ioread8(fl, pos + 3) * 256 + ioread8(fl, pos + 2),
      ioread8(fl, pos + 1) * 256 + ioread8(fl, pos)>>

\* Flash with the signature planted at offset p and the 32-bit field L
\* behind it, zero elsewhere; and flash without a signature.
PlantedFlash(p, L) ==
    [i \in 1..BBIOSAPI_SIGNATURE_SEARCH_AREA |->
        LET j == i - 1 - p
        IN  IF j >= 0 /\ j < 4 THEN Byte32(BBIOSAPI_SIGNATURE[2], j)
            ELSE IF j >= 4 /\ j < 8 THEN Byte32(BBIOSAPI_SIGNATURE[1], j - 4)
            ELSE IF j >= 8 /\ j < 12 THEN Byte32(L, j - 8)
            ELSE 0]

NoFlash == [i \in 1..BBIOSAPI_SIGNATURE_SEARCH_AREA |-> 0]

\* values of the embedded field: 0x2000, 0x2001, 0, and the top of the
\* 32-bit range
LengthFields ==
    {U32(8192), U32(8193), ZERO32,
     <<65535, 61440>>, <<65535, 61441>>, <<65535, 65535>>}

\* Flash with two images: the signature at offsets p and q.
TwicePlanted(p, q) ==
    [i \in 1..BBIOSAPI_SIGNATURE_SEARCH_AREA |->
        IF i - 1 >= p /\ i - 1 < p + 12
        THEN PlantedFlash(p, U32(8192))[i]
        ELSE PlantedFlash(q, U32(4096))[i]]

Flashes ==
    {NoFlash}
    \cup {PlantedFlash(p, U32(8192)) :
             p \in 0..(BBIOSAPI_SIGNATURE_SEARCH_AREA - 8)}
    \cup {PlantedFlash(37, L) : L \in LengthFields}
    \cup {TwicePlanted(17, 32), TwicePlanted(5, 21), TwicePlanted(33, 2),
          TwicePlanted(3, 50), TwicePlanted(40, 17)}

\* search_area as the module is loaded with: below, at and above the maximum
SearchAreas ==
    {BBIOSAPI_SIGNATURE_SEARCH_AREA - STEP_SIZE,
     BBIOSAPI_SIGNATURE_SEARCH_AREA,
     BBIOSAPI_SIGNATURE_SEARCH_AREA + STEP_SIZE}

\* BBIOSAPI_SIGNATURE == ((uint64_t) high << 32 | low)
SignatureAt(fl, pos) ==
    /\ ioread32(fl, pos) = BBIOSAPI_SIGNATURE[2]
    /\ ioread32(fl, pos + 4) = BBIOSAPI_SIGNATURE[1]

\* A slip of find_bios_scan: the window walked byte by byte in address
\* order instead of phase by phase.
RECURSIVE find_bios_scan_by_address(_, _, _, _)
find_bios_scan_by_address(fl, area, off, pos) ==
    IF ~(pos <= area - STEP_SIZE)
    THEN [found |-> FALSE, pos |-> 0, off |-> STEP_SIZE]
    ELSE IF SignatureAt(fl, pos)
    THEN [found |-> TRUE, pos |-> pos, off |-> pos % STEP_SIZE]
    ELSE find_bios_scan_by_address(fl, area, off, pos + 1)

\* The two loops of bbapi_find_bios, from phase off and position pos on:
\* for (off = 0; off < STEP_SIZE; ++off)
\*     for (pos = start + off; pos <= end - STEP_SIZE; pos += STEP_SIZE)
RECURSIVE find_bios_scan(_, _, _, _)
find_bios_scan(fl, area, off, pos) ==
    IF ~(off < STEP_SIZE)
    THEN [found |-> FALSE, pos |-> 0, off |-> off]
    ELSE IF ~(pos <= area - STEP_SIZE)
    THEN find_bios_scan(fl, area, off + 1, off + 1)
    ELSE IF SignatureAt(fl, pos)
    THEN [found |-> TRUE, pos |-> pos, off |-> off]
    ELSE find_bios_scan(fl, area, off, pos + STEP_SIZE)

\* g_bbapi and the bookkeeping of discovery before bbapi_find_bios has run
NotBooted ==
    [ran |-> FALSE, result |-> ZERO32, entry |-> NULL, memory |-> NULL,
     found |-> FALSE, pos |-> 0, off |-> 0, maps |-> 0, unmaps |-> 0,
     allocs |-> 0, frees |-> 0,
     size |-> ZERO32, offset |-> ZERO32, copied |-> ZERO32, pages |-> 0]

\* A slip of bbapi_copy_bios: the area kept when set_memory_x fails.
bbapi_copy_bios_no_vfree(fl, pos, alloc_ok, exec_ok) ==
    LET offset == ioread32(fl, pos + 8)
        size == Add32(offset, IMAGE_MARGIN)
    IN  IF ~alloc_ok \/ size = ZERO32
        THEN [result |-> Neg32(U32(ENOMEM)), entry |-> NULL, memory |-> NULL,
              allocs |-> 0, frees |-> 0,
              size |-> size, offset |-> offset, copied |-> ZERO32,
              pages |-> 0]
        ELSE IF ~exec_ok
        THEN [result |-> Neg32(U32(EFAULT)), entry |-> NULL,
              memory |-> ALLOCATED, allocs |-> 1, frees |-> 0,
              size |-> size, offset |-> offset, copied |-> ZERO32,
              pages |-> 0]
        ELSE [result |-> ZERO32, entry |-> IMAGE, memory |-> ALLOCATED,
              allocs |-> 1, frees |-> 0,
              size |-> size, offset |-> offset, copied |-> size,
              pages |-> Shr32(size, PAGE_SHIFT)]

\* bbapi_copy_bios(bbapi, pos): offset and size are 32-bit, vmalloc and
\* set_memory_x succeed or fail (vmalloc of no bytes fails); pages is the
\* number of pages set_memory_x made executable, size >> PAGE_SHIFT.
bbapi_copy_bios(fl, pos, alloc_ok, exec_ok) ==
    LET offset == ioread32(fl, pos + 8)
        size == Add32(offset, IMAGE_MARGIN)
    IN  IF ~alloc_ok \/ size = ZERO32
        THEN [result |-> Neg32(U32(ENOMEM)), entry |-> NULL, memory |-> NULL,
              allocs |-> 0, frees |-> 0,
              size |-> size, offset |-> offset, copied |-> ZERO32,
              pages |-> 0]
        ELSE IF ~exec_ok
        THEN [result |-> Neg32(U32(EFAULT)), entry |-> NULL, memory |-> FREED,
              allocs |-> 1, frees |-> 1,
              size |-> size, offset |-> offset, copied |-> ZERO32,
              pages |-> 0]
        ELSE [result |-> ZERO32, entry |-> IMAGE, memory |-> ALLOCATED,
              allocs |-> 1, frees |-> 0,
              size |-> size, offset |-> offset, copied |-> size,
              pages |-> Shr32(size, PAGE_SHIFT)]

\* A slip of find_bios: the result of a failed bbapi_copy_bios returned
\* at once, past the cleanup label.
find_bios_return_early(fl, area, map_ok, alloc_ok, exec_ok) ==
    IF area > BBIOSAPI_SIGNATURE_SEARCH_AREA
    THEN [NotBooted EXCEPT !.ran = TRUE, !.result = Neg32(U32(EFAULT))]
    ELSE IF ~map_ok
    THEN [NotBooted EXCEPT !.ran = TRUE, !.result = Neg32(U32(ENOMEM))]
    ELSE LET m == find_bios_scan(fl, area, 0, 0)
         IN  IF ~m.found
             THEN [NotBooted EXCEPT !.ran = TRUE,
                                    !.result = Neg32(U32(EFAULT)),
                                    !.off = m.off,
                                    !.maps = 1, !.unmaps = 1]
             ELSE LET c == bbapi_copy_bios(fl, m.pos, alloc_ok, exec_ok)
                  IN  [ran |-> TRUE, result |-> c.result,
                       entry |-> c.entry, memory |-> c.memory,
                       found |-> TRUE, pos |-> m.pos, off |-> m.off,
                       maps |-> 1,
                       unmaps |-> IF c.result = ZERO32 THEN 1 ELSE 0,
                       allocs |-> c.allocs, frees |-> c.frees,
                       size |-> c.size, offset |-> c.offset,
                       copied |-> c.copied, pages |-> c.pages]

\* bbapi_find_bios(bbapi) from its first line to its return
find_bios(fl, area, map_ok, alloc_ok, exec_ok) ==
    IF area > BBIOSAPI_SIGNATURE_SEARCH_AREA
    THEN [NotBooted EXCEPT !.ran = TRUE, !.result = Neg32(U32(EFAULT))]
    ELSE IF ~map_ok
    THEN [NotBooted EXCEPT !.ran = TRUE, !.result = Neg32(U32(ENOMEM))]
    ELSE LET m == find_bios_scan(fl, area, 0, 0)
         IN  IF ~m.found
             THEN [NotBooted EXCEPT !.ran = TRUE,
                                    !.result = Neg32(U32(EFAULT)),
                                    !.off = m.off,
                                    !.maps = 1, !.unmaps = 1]
             ELSE LET c == bbapi_copy_bios(fl, m.pos, alloc_ok, exec_ok)
                  IN  [ran |-> TRUE, result |-> c.result,
                       entry |-> c.entry, memory |-> c.memory,
                       found |-> TRUE, pos |-> m.pos, off |-> m.off,
                       maps |-> 1, unmaps |-> 1,
                       allocs |-> c.allocs, frees |-> c.frees,
                       size |-> c.size, offset |-> c.offset,
                       copied |-> c.copied, pages |-> c.pages]

\* The module before bbapi_init_module has gone past bbapi_find_bios: where
\* its thread stands, what bbapi_init_module returned, whether the
\* character device exists, the platform devices registered now, those
\* registered at startup and those platform_device_unregister was called
\* for, and whether bbapi_exit is running.
NotLoaded ==
    [stage |-> "find_bios", result |-> ZERO32, cdev |-> FALSE,
     registered |-> {}, startup |-> {}, unregistered |-> {},
     leaving |-> FALSE]

(***************************************************************************)
(* Initial state: the zero-initialised static g_bbapi of a build.          *)
(***************************************************************************)
Init ==
    /\ BIOSAPIERR_OFFSET \in BuildOffsets
    /\ entry = NULL
    /\ mutex = 0
    /\ bbapi_in = Fill(sizeof_in, 0)
    /\ bbapi_out = Fill(sizeof_out, 0)
    /\ pc = [p \in Procs |-> "idle"]
    /\ call = [p \in Procs |-> NoCall]
    /\ bbstruct = [p \in Procs |-> NoCall]
    /\ ret = [p \in Procs |-> ZERO32]
    /\ written = [p \in Procs |-> 0]
    /\ result = [p \in Procs |-> ZERO32]
    /\ supported = [p \in Procs |-> FALSE]
    /\ user_out = [p \in Procs |-> <<>>]
    /\ user_bytes = [p \in Procs |-> 0]
    /\ fw_active = {}
    /\ eff = [p \in Procs |-> NoEff]
    /\ g_bbapi_search_area = BBIOSAPI_SIGNATURE_SEARCH_AREA
    /\ flash = PlantedFlash(37, U32(8192))
    /\ memory = NULL
    /\ boot = NotBooted
    /\ unload = "no"
    /\ prev_failed = [p \in Procs |-> FALSE]
    /\ life = NotLoaded

(***************************************************************************)
(* bbapi_init_module's call of bbapi_find_bios: discovery either publishes *)
(* the entry point of the shadowed image or leaves g_bbapi.entry unset.    *)
(***************************************************************************)
bbapi_find_bios ==
    /\ ~boot.ran
    /\ \E map_ok, alloc_ok, exec_ok \in BOOLEAN :
          boot' = find_bios(flash, g_bbapi_search_area,
                            map_ok, alloc_ok, exec_ok)
    /\ entry' = boot'.entry
    /\ memory' = boot'.memory
    /\ UNCHANGED <<g_bbapi_search_area, flash, unload, BIOSAPIERR_OFFSET, mutex, bbapi_in, bbapi_out, pc, call,
                   bbstruct, ret, written, result, supported, user_out,
                   user_bytes, fw_active, eff>>

(***************************************************************************)
(* The external path: bbapi_ioctl.                                         *)
(***************************************************************************)
Err(e) == Neg32(U32(e))

Rejected(e) == [ok |-> FALSE, val |-> Err(e)]
Passed == [ok |-> TRUE, val |-> ZERO32]

\* A slip of copy_bbstruct: the short form copied at the full size.
copy_bbstruct_full_size(c) == c

\* bbstruct as bbapi_ioctl fills it: the short form copies the descriptor
\* without its last two fields, which were set to NULL beforehand.
copy_bbstruct(c) ==
    IF c.cmd = BBAPI_CMD_LEGACY
    THEN [c EXCEPT !.pBytes = NULL, !.pMode = NULL]
    ELSE c

\* Slips of bbapi_ioctl_check: the threshold itself let through; the
\* threshold tested ahead of the reserved field; the reserved field or the
\* entry pointer not tested at all.
bbapi_ioctl_check_gt(e, c) ==
    IF e = NULL THEN Rejected(EINVAL)
    ELSE IF c.cmd # BBAPI_CMD_LEGACY /\ c.cmd # BBAPI_CMD THEN Rejected(EINVAL)
    ELSE IF ~c.argOk THEN Rejected(EINVAL)
    ELSE IF copy_bbstruct(c).pMode # NULL THEN Rejected(EINVAL)
    ELSE IF copy_bbstruct(c).offset > ACCESS_THRESHOLD THEN Rejected(EACCES)
    ELSE Passed

bbapi_ioctl_check_access_first(e, c) ==
    IF e = NULL THEN Rejected(EINVAL)
    ELSE IF c.cmd # BBAPI_CMD_LEGACY /\ c.cmd # BBAPI_CMD THEN Rejected(EINVAL)
    ELSE IF ~c.argOk THEN Rejected(EINVAL)
    ELSE IF copy_bbstruct(c).offset >= ACCESS_THRESHOLD THEN Rejected(EACCES)
    ELSE IF copy_bbstruct(c).pMode # NULL THEN Rejected(EINVAL)
    ELSE Passed

bbapi_ioctl_check_no_pmode(e, c) ==
    IF e = NULL THEN Rejected(EINVAL)
    ELSE IF c.cmd # BBAPI_CMD_LEGACY /\ c.cmd # BBAPI_CMD THEN Rejected(EINVAL)
    ELSE IF ~c.argOk THEN Rejected(EINVAL)
    ELSE IF copy_bbstruct(c).offset >= ACCESS_THRESHOLD THEN Rejected(EACCES)
    ELSE Passed

bbapi_ioctl_check_no_entry(e, c) ==
    IF c.cmd # BBAPI_CMD_LEGACY /\ c.cmd # BBAPI_CMD THEN Rejected(EINVAL)
    ELSE IF ~c.argOk THEN Rejected(EINVAL)
    ELSE IF copy_bbstruct(c).pMode # NULL THEN Rejected(EINVAL)
    ELSE IF copy_bbstruct(c).offset >= ACCESS_THRESHOLD THEN Rejected(EACCES)
    ELSE Passed

\* The checks of bbapi_ioctl ahead of mutex_lock, in the order of the code.
bbapi_ioctl_check(e, c) ==
    IF e = NULL THEN Rejected(EINVAL)
    ELSE IF c.cmd # BBAPI_CMD_LEGACY /\ c.cmd # BBAPI_CMD THEN Rejected(EINVAL)
    ELSE IF ~c.argOk THEN Rejected(EINVAL)
    ELSE IF copy_bbstruct(c).pMode # NULL THEN Rejected(EINVAL)
    ELSE IF copy_bbstruct(c).offset >= ACCESS_THRESHOLD THEN Rejected(EACCES)
    ELSE Passed

\* A request that is valid in every respect when it is issued.
Accepted(e, c) ==
    /\ e # NULL
    /\ \/ c.path = "rw"
       \/ /\ c.path = "ioctl"
          /\ c.cmd \in {BBAPI_CMD, BBAPI_CMD_LEGACY}
          /\ c.argOk
          /\ (c.cmd = BBAPI_CMD => c.pMode = NULL)
          /\ c.offset < ACCESS_THRESHOLD
          /\ c.nIn <= sizeof_in
          /\ c.nOut <= sizeof_out
          /\ (c.nIn > 0 => c.pIn = USER)

\* A caller enters a call: its locals and the buffers it hands in are fresh.
Issue(p, c) ==
    /\ pc[p] = "idle"
    /\ call' = [call EXCEPT ![p] = c]
    /\ eff' = [eff EXCEPT ![p] = [NoEff EXCEPT !.entry = entry]]
    /\ ret' = [ret EXCEPT ![p] = ZERO32]
    /\ written' = [written EXCEPT ![p] = 0]
    /\ user_out' = [user_out EXCEPT ![p] = <<>>]
    /\ user_bytes' = [user_bytes EXCEPT ![p] = 0]

bbapi_ioctl(p, c) ==
    /\ Issue(p, c)
    /\ bbstruct' = [bbstruct EXCEPT ![p] = copy_bbstruct(c)]
    /\ LET v == bbapi_ioctl_check(entry, c)
       IN  IF v.ok
           THEN /\ pc' = [pc EXCEPT ![p] = "ioctl_lock"]
                /\ result' = [result EXCEPT ![p] = ZERO32]
           ELSE /\ result' = [result EXCEPT ![p] = v.val]
                /\ UNCHANGED pc
    /\ supported' = [supported EXCEPT ![p] = FALSE]
    /\ UNCHANGED <<boot_vars, BIOSAPIERR_OFFSET, entry, mutex, bbapi_in, bbapi_out,
                   fw_active>>

\* A slip of ioctl_mutex_lock: the lock taken without waiting for it.
ioctl_mutex_lock_nowait(p) ==
    /\ pc[p] = "ioctl_lock"
    /\ mutex' = p
    /\ pc' = [pc EXCEPT ![p] = "mutexed"]
    /\ eff' = [eff EXCEPT ![p].locks = @ + 1]
    /\ UNCHANGED <<boot_vars, BIOSAPIERR_OFFSET, entry, bbapi_in, bbapi_out, call,
                   bbstruct, ret, written, result, supported, user_out,
                   user_bytes, fw_active>>

\* mutex_lock(&g_bbapi.mutex) in bbapi_ioctl
ioctl_mutex_lock(p) ==
    /\ pc[p] = "ioctl_lock"
    /\ mutex = 0
    /\ mutex' = p
    /\ pc' = [pc EXCEPT ![p] = "mutexed"]
    /\ eff' = [eff EXCEPT ![p].locks = @ + 1]
    /\ UNCHANGED <<boot_vars, BIOSAPIERR_OFFSET, entry, bbapi_in, bbapi_out, call,
                   bbstruct, ret, written, result, supported, user_out,
                   user_bytes, fw_active>>

\* A slip of bbapi_ioctl_mutexed: the size rejection returns to the caller
\* of bbapi_ioctl, past mutex_unlock.
bbapi_ioctl_mutexed_leak(p) ==
    /\ pc[p] = "mutexed"
    /\ LET bs == bbstruct[p]
       IN  IF bs.nIn > sizeof_in \/ bs.nOut > sizeof_out
           THEN /\ result' = [result EXCEPT ![p] = Err(EINVAL)]
                /\ pc' = [pc EXCEPT ![p] = "idle"]
                /\ UNCHANGED <<bbapi_in, eff>>
           ELSE IF bs.nIn > 0 /\ bs.pIn # USER
           THEN /\ bbapi_in' = Overlay(bbapi_in, Fill(bs.nIn, 0))
                /\ result' = [result EXCEPT ![p] = Err(EFAULT)]
                /\ pc' = [pc EXCEPT ![p] = "ioctl_unlock"]
                /\ eff' = [eff EXCEPT ![p].scratch = TRUE, ![p].urd = TRUE]
           ELSE /\ bbapi_in' = Overlay(bbapi_in, Fill(bs.nIn, bs.data))
                /\ pc' = [pc EXCEPT ![p] = "call"]
                /\ eff' = [eff EXCEPT ![p].scratch = (bs.nIn > 0),
                                      ![p].urd = (bs.nIn > 0),
                                      ![p].staged = Fill(bs.nIn, bs.data)]
                /\ UNCHANGED result
    /\ UNCHANGED <<boot_vars, BIOSAPIERR_OFFSET, entry, mutex, bbapi_out, call, bbstruct,
                   ret, written, supported, user_out, user_bytes, fw_active>>

\* A slip of bbapi_ioctl_mutexed: a size equal to the capacity refused.
bbapi_ioctl_mutexed_ge(p) ==
    /\ pc[p] = "mutexed"
    /\ LET bs == bbstruct[p]
       IN  IF bs.nIn >= sizeof_in \/ bs.nOut >= sizeof_out
           THEN /\ result' = [result EXCEPT ![p] = Err(EINVAL)]
                /\ pc' = [pc EXCEPT ![p] = "ioctl_unlock"]
                /\ UNCHANGED <<bbapi_in, eff>>
           ELSE IF bs.nIn > 0 /\ bs.pIn # USER
           THEN /\ bbapi_in' = Overlay(bbapi_in, Fill(bs.nIn, 0))
                /\ result' = [result EXCEPT ![p] = Err(EFAULT)]
                /\ pc' = [pc EXCEPT ![p] = "ioctl_unlock"]
                /\ eff' = [eff EXCEPT ![p].scratch = TRUE, ![p].urd = TRUE]
           ELSE /\ bbapi_in' = Overlay(bbapi_in, Fill(bs.nIn, bs.data))
                /\ pc' = [pc EXCEPT ![p] = "call"]
                /\ eff' = [eff EXCEPT ![p].scratch = (bs.nIn > 0),
                                      ![p].urd = (bs.nIn > 0),
                                      ![p].staged = Fill(bs.nIn, bs.data)]
                /\ UNCHANGED result
    /\ UNCHANGED <<boot_vars, BIOSAPIERR_OFFSET, entry, mutex, bbapi_out, call, bbstruct,
                   ret, written, supported, user_out, user_bytes, fw_active>>

\* bbapi_ioctl_mutexed up to the call: the size checks and the staging of
\* the input.  copy_from_user fails on an unreadable buffer and may then
\* have zeroed the part of the destination it did not fill.
bbapi_ioctl_mutexed(p) ==
    /\ pc[p] = "mutexed"
    /\ LET bs == bbstruct[p]
       IN  IF bs.nIn > sizeof_in \/ bs.nOut > sizeof_out
           THEN /\ result' = [result EXCEPT ![p] = Err(EINVAL)]
                /\ pc' = [pc EXCEPT ![p] = "ioctl_unlock"]
                /\ UNCHANGED <<bbapi_in, eff>>
           ELSE IF bs.nIn > 0 /\ bs.pIn # USER
           THEN /\ \E zeroed \in BOOLEAN :
                     bbapi_in' = IF zeroed
                                 THEN Overlay(bbapi_in, Fill(bs.nIn, 0))
                                 ELSE bbapi_in
                /\ result' = [result EXCEPT ![p] = Err(EFAULT)]
                /\ pc' = [pc EXCEPT ![p] = "ioctl_unlock"]
                /\ eff' = [eff EXCEPT ![p].scratch = TRUE, ![p].urd = TRUE]
           ELSE /\ bbapi_in' = Overlay(bbapi_in, Fill(bs.nIn, bs.data))
                /\ pc' = [pc EXCEPT ![p] = "call"]
                /\ eff' = [eff EXCEPT ![p].scratch = (bs.nIn > 0),
                                      ![p].urd = (bs.nIn > 0),
                                      ![p].staged = Fill(bs.nIn, bs.data)]
                /\ UNCHANGED result
    /\ UNCHANGED <<boot_vars, BIOSAPIERR_OFFSET, entry, mutex, bbapi_out, call, bbstruct,
                   ret, written, supported, user_out, user_bytes, fw_active>>

\* bbapi_call(bbapi->in, bbapi->out, bbapi->entry, cmd, &written): the jump
\* into the firmware, which reads nInBufferSize bytes at in.
ioctl_bbapi_call(p) ==
    /\ pc[p] = "call"
    /\ pc' = [pc EXCEPT ![p] = "in_fw"]
    /\ fw_active' = fw_active \cup {p}
    /\ eff' = [eff EXCEPT ![p].fw = @ + 1,
                          ![p].scratch = TRUE,
                          ![p].seen = Prefix(bbapi_in, bbstruct[p].nIn)]
    /\ UNCHANGED <<boot_vars, BIOSAPIERR_OFFSET, entry, mutex, bbapi_in, bbapi_out, call,
                   bbstruct, ret, written, result, supported, user_out,
                   user_bytes>>

\* The firmware returns: a status, a byte count it reports, and the bytes
\* it wrote at out, at most nOutBufferSize of them.
ioctl_firmware_return(p) ==
    /\ pc[p] = "in_fw"
    /\ \E s \in FwStatuses, w \in 0..(sizeof_out + 1), b \in Bytes :
          /\ ret' = [ret EXCEPT ![p] = s]
          /\ written' = [written EXCEPT ![p] = w]
          /\ bbapi_out' = Overlay(bbapi_out,
                                  Fill(Min(w, bbstruct[p].nOut), b))
    /\ eff' = [eff EXCEPT ![p].left = bbapi_out']
    /\ fw_active' = fw_active \ {p}
    /\ pc' = [pc EXCEPT ![p] = "post_call"]
    /\ UNCHANGED <<boot_vars, BIOSAPIERR_OFFSET, entry, mutex, bbapi_in, call, bbstruct,
                   result, supported, user_out, user_bytes>>

\* A slip of firmware_error: the offset constant left out.
firmware_error_no_offset(s, off) == Neg32(s)

\* -(ret | BIOSAPIERR_OFFSET), in unsigned int
firmware_error(s, off) == Neg32(Or32(s, off))

\* The n bytes copy_to_user reads at bbapi->out; what lies behind the array
\* is whatever the build placed there.
ReadOut(n, behind) ==
    [i \in 1..n |-> IF i <= sizeof_out THEN bbapi_out[i] ELSE behind]

\* A slip of bbapi_ioctl_mutexed_return: an internal bbapi_rw call made by
\* the gateway while it holds the lock.
bbapi_ioctl_mutexed_return_rw(p) ==
    /\ pc[p] = "post_call"
    /\ LET bs == bbstruct[p]
       IN  IF ret[p] # ZERO32
           THEN /\ result' = [result EXCEPT
                                 ![p] = firmware_error(ret[p], BIOSAPIERR_OFFSET)]
                /\ UNCHANGED <<user_out, user_bytes, eff>>
           ELSE IF written[p] > 0 /\ bs.pOut # USER
           THEN /\ result' = [result EXCEPT ![p] = Err(EFAULT)]
                /\ eff' = [eff EXCEPT ![p].scratch = TRUE]
                /\ UNCHANGED <<user_out, user_bytes>>
           ELSE /\ \E behind \in Bytes :
                     user_out' = [user_out EXCEPT
                                     ![p] = ReadOut(written[p], behind)]
                /\ user_bytes' = [user_bytes EXCEPT
                                     ![p] = IF bs.pBytes = USER
                                            THEN written[p] ELSE @]
                /\ eff' = [eff EXCEPT
                              ![p].scratch = @ \/ written[p] > 0,
                              ![p].uwr = written[p] > 0 \/ bs.pBytes = USER]
                /\ result' = [result EXCEPT ![p] = ZERO32]
    /\ pc' = [pc EXCEPT ![p] = "rw_lock"]
    /\ UNCHANGED <<boot_vars, BIOSAPIERR_OFFSET, entry, mutex, bbapi_in, bbapi_out, call,
                   bbstruct, ret, written, supported, fw_active>>

\* bbapi_ioctl_mutexed after the call: error translation, or the copy of
\* the output to the caller and of the byte count to pBytesReturned; what
\* put_user returns is not looked at.
bbapi_ioctl_mutexed_return(p) ==
    /\ pc[p] = "post_call"
    /\ LET bs == bbstruct[p]
       IN  IF ret[p] # ZERO32
           THEN /\ result' = [result EXCEPT
                                 ![p] = firmware_error(ret[p], BIOSAPIERR_OFFSET)]
                /\ UNCHANGED <<user_out, user_bytes, eff>>
           ELSE IF written[p] > 0 /\ bs.pOut # USER
           THEN /\ result' = [result EXCEPT ![p] = Err(EFAULT)]
                /\ eff' = [eff EXCEPT ![p].scratch = TRUE]
                /\ UNCHANGED <<user_out, user_bytes>>
           ELSE /\ \E behind \in Bytes :
                     user_out' = [user_out EXCEPT
                                     ![p] = ReadOut(written[p], behind)]
                /\ user_bytes' = [user_bytes EXCEPT
                                     ![p] = IF bs.pBytes = USER
                                            THEN written[p] ELSE @]
                /\ eff' = [eff EXCEPT
                              ![p].scratch = @ \/ written[p] > 0,
                              ![p].uwr = written[p] > 0 \/ bs.pBytes = USER]
                /\ result' = [result EXCEPT ![p] = ZERO32]
    /\ pc' = [pc EXCEPT ![p] = "ioctl_unlock"]
    /\ UNCHANGED <<boot_vars, BIOSAPIERR_OFFSET, entry, mutex, bbapi_in, bbapi_out, call,
                   bbstruct, ret, written, supported, fw_active>>

\* A slip of ioctl_mutex_unlock: the lock released after a success only.
ioctl_mutex_unlock_on_success(p) ==
    /\ pc[p] = "ioctl_unlock"
    /\ mutex' = IF result[p] = ZERO32 THEN 0 ELSE mutex
    /\ pc' = [pc EXCEPT ![p] = "idle"]
    /\ written' = [written EXCEPT ![p] = 0]
    /\ eff' = [eff EXCEPT ![p].staged = <<>>, ![p].seen = <<>>,
                          ![p].left = <<>>]
    /\ UNCHANGED <<boot_vars, BIOSAPIERR_OFFSET, entry, bbapi_in, bbapi_out, call,
                   bbstruct, ret, result, supported, user_out,
                   user_bytes, fw_active>>

\* mutex_unlock(&g_bbapi.mutex); return result;  The locals of
\* bbapi_ioctl_mutexed are gone by then.
ioctl_mutex_unlock(p) ==
    /\ pc[p] = "ioctl_unlock"
    /\ mutex' = 0
    /\ pc' = [pc EXCEPT ![p] = "idle"]
    /\ written' = [written EXCEPT ![p] = 0]
    /\ eff' = [eff EXCEPT ![p].staged = <<>>, ![p].seen = <<>>,
                          ![p].left = <<>>]
    /\ UNCHANGED <<boot_vars, BIOSAPIERR_OFFSET, entry, bbapi_in, bbapi_out, call,
                   bbstruct, ret, result, supported, user_out,
                   user_bytes, fw_active>>

(***************************************************************************)
(* The internal path: bbapi_rw, reached through bbapi_read, bbapi_write    *)
(* and bbapi_supports.  The firmware is handed the caller's own buffers.   *)
(***************************************************************************)
\* A slip of bbapi_supports: the value switched on without the minus.
bbapi_supports_unnegated(r, off) ==
    r \in {BIOSAPI_INVALIDSIZE(off), BIOSAPI_INVALIDPARM(off)}

\* switch (-bbapi_read(group, offset, NULL, 0)) of bbapi_supports
bbapi_supports(r, off) ==
    Neg32(r) \in {BIOSAPI_INVALIDSIZE(off), BIOSAPI_INVALIDPARM(off)}

\* the value bbapi_rw returns for the firmware's status
bbapi_rw_result(s, off) ==
    IF s # ZERO32 THEN firmware_error(s, off) ELSE s

\* bbapi_write(0, 0xFF, NULL, 0), the shutdown notification of bbapi_exit_bios
ExitCall ==
    [path |-> "rw", cmd |-> "bbapi_write", argOk |-> TRUE, group |-> 0,
     offset |-> 255, pIn |-> NULL, nIn |-> 0, pOut |-> NULL, nOut |-> 0,
     pBytes |-> USER, pMode |-> NULL, data |-> 0]

\* bbapi_rw up to mutex_lock
rw_enter(p, c) ==
    /\ Issue(p, c)
    /\ bbstruct' = [bbstruct EXCEPT ![p] = c]
    /\ IF entry = NULL
       THEN /\ result' = [result EXCEPT
                             ![p] = BIOSAPI_SRVNOTSUPP(BIOSAPIERR_OFFSET)]
            /\ supported' = [supported EXCEPT
                                ![p] = /\ c.cmd = "bbapi_supports"
                                       /\ bbapi_supports(result'[p],
                                                         BIOSAPIERR_OFFSET)]
            /\ UNCHANGED pc
       ELSE /\ pc' = [pc EXCEPT ![p] = "rw_lock"]
            /\ supported' = [supported EXCEPT ![p] = FALSE]
            /\ result' = [result EXCEPT ![p] = ZERO32]
    /\ UNCHANGED <<BIOSAPIERR_OFFSET, entry, mutex, bbapi_in, bbapi_out,
                   fw_active>>

bbapi_rw(p, c) ==
    /\ rw_enter(p, c)
    /\ UNCHANGED boot_vars

\* A slip of rw_mutex_lock: the lock taken without waiting for it.
rw_mutex_lock_nowait(p) ==
    /\ pc[p] = "rw_lock"
    /\ mutex' = p
    /\ pc' = [pc EXCEPT ![p] = "rw_call"]
    /\ eff' = [eff EXCEPT ![p].locks = @ + 1]
    /\ UNCHANGED <<boot_vars, BIOSAPIERR_OFFSET, entry, bbapi_in, bbapi_out, call,
                   bbstruct, ret, written, result, supported, user_out,
                   user_bytes, fw_active>>

\* mutex_lock(&g_bbapi.mutex) in bbapi_rw
rw_mutex_lock(p) ==
    /\ pc[p] = "rw_lock"
    /\ mutex = 0
    /\ mutex' = p
    /\ pc' = [pc EXCEPT ![p] = "rw_call"]
    /\ eff' = [eff EXCEPT ![p].locks = @ + 1]
    /\ UNCHANGED <<boot_vars, BIOSAPIERR_OFFSET, entry, bbapi_in, bbapi_out, call,
                   bbstruct, ret, written, result, supported, user_out,
                   user_bytes, fw_active>>

\* bbapi_call(in, out, g_bbapi.entry, &cmd, bytes_written)
rw_bbapi_call(p) ==
    /\ pc[p] = "rw_call"
    /\ pc' = [pc EXCEPT ![p] = "rw_in_fw"]
    /\ fw_active' = fw_active \cup {p}
    /\ eff' = [eff EXCEPT ![p].fw = @ + 1]
    /\ UNCHANGED <<boot_vars, BIOSAPIERR_OFFSET, entry, mutex, bbapi_in, bbapi_out, call,
                   bbstruct, ret, written, result, supported, user_out,
                   user_bytes>>

rw_firmware_return(p) ==
    /\ pc[p] = "rw_in_fw"
    /\ \E s \in FwStatuses : ret' = [ret EXCEPT ![p] = s]
    /\ fw_active' = fw_active \ {p}
    /\ pc' = [pc EXCEPT ![p] = "rw_unlock"]
    /\ UNCHANGED <<boot_vars, BIOSAPIERR_OFFSET, entry, mutex, bbapi_in, bbapi_out, call,
                   bbstruct, written, result, supported, user_out, user_bytes, eff>>

\* mutex_unlock(&g_bbapi.mutex) and the return of bbapi_rw; for a probe,
\* the switch of bbapi_supports on the value returned.
rw_mutex_unlock(p) ==
    /\ pc[p] = "rw_unlock"
    /\ mutex' = 0
    /\ result' = [result EXCEPT
                     ![p] = bbapi_rw_result(ret[p], BIOSAPIERR_OFFSET)]
    /\ supported' = [supported EXCEPT
                        ![p] = /\ call[p].cmd = "bbapi_supports"
                               /\ bbapi_supports(result'[p], BIOSAPIERR_OFFSET)]
    /\ pc' = [pc EXCEPT ![p] = "idle"]
    /\ UNCHANGED <<boot_vars, BIOSAPIERR_OFFSET, entry, bbapi_in, bbapi_out, call,
                   bbstruct, ret, written, user_out, user_bytes, fw_active, eff>>

(***************************************************************************)
(* The module's life: bbapi_init_module after discovery, its rollback, and *)
(* bbapi_exit with the devices spelled out.  The thread running them makes *)
(* its firmware calls through bbapi_rw like any other internal caller.     *)
(***************************************************************************)
\* bbapi_read / bbapi_write / bbapi_supports on an index group and offset;
\* the index values of TcBaDevDef.h are told apart by number only
rw_call(cmd, g, o) ==
    [path |-> "rw", cmd |-> cmd, argOk |-> TRUE, group |-> g, offset |-> o,
     pIn |-> NULL, nIn |-> 0, pOut |-> NULL, nOut |-> 0,
     pBytes |-> USER, pMode |-> NULL, data |-> 0]

\* bbapi_supports(BIOSIGRP_CXPWRSUPP, BIOSIOFFS_CXPWRSUPP_GETTYPE)
bbapi_supports_power == rw_call("bbapi_supports", 1, 1)
\* bbapi_supports(BIOSIGRP_CXPWRSUPP, BIOSIOFFS_CXPWRSUPP_ENABLEBACKLIGHT)
bbapi_supports_display == rw_call("bbapi_supports", 1, 2)
\* bbapi_supports(BIOSIGRP_SUPS, BIOSIOFFS_SUPS_GPIO_PIN_EX), and .._GPIO_PIN
bbapi_supports_sups_ex == rw_call("bbapi_supports", 2, 1)
bbapi_supports_sups_pin == rw_call("bbapi_supports", 2, 2)
\* bbapi_write(0, 0xFE, &extOsOps, sizeof(extOsOps)) of bbapi_init_bios
InitCall == rw_call("bbapi_write", 0, 254)

\* what platform_device_register and simple_cdev_init return on failure
RegisterErrors == {Err(ENOMEM), Err(EINVAL)}

\* a step of the module's thread that enters no call
NoCallMade ==
    UNCHANGED <<BIOSAPIERR_OFFSET, entry, mutex, bbapi_in, bbapi_out, pc,
                call, bbstruct, ret, written, result, supported, user_out,
                user_bytes, fw_active, eff>>

\* vfree(g_bbapi.memory): entry and memory keep their values
vfree_memory ==
    /\ memory' = FREED
    /\ boot' = [boot EXCEPT !.frees = @ + 1]

\* platform_device_unregister(&d)
platform_device_unregister(l, d) ==
    [l EXCEPT !.registered = @ \ {d}, !.unregistered = @ \cup {d}]

\* bbapi_init_module after bbapi_find_bios: the error returned, or the
\* probe of bbapi_supports_power() entered
init_supports_power(p) ==
    /\ life.stage = "find_bios"
    /\ boot.ran
    /\ pc[p] = "idle"
    /\ IF boot.result # ZERO32
       THEN /\ life' = [life EXCEPT !.stage = "init_failed",
                                    !.result = boot.result]
            /\ NoCallMade
       ELSE /\ life' = [life EXCEPT !.stage = "supports_power"]
            /\ rw_enter(p, bbapi_supports_power)
    /\ UNCHANGED boot_vars

\* platform_device_register(&bbapi_power) if the probe said so; on failure
\* goto rollback_memory; then the first probe of bbapi_supports_sups()
init_register_power(p) ==
    /\ life.stage = "supports_power"
    /\ pc[p] = "idle"
    /\ \E e \in RegisterErrors \cup {ZERO32} :
          IF supported[p] /\ e # ZERO32
          THEN /\ life' = [life EXCEPT !.stage = "init_failed", !.result = e]
               /\ vfree_memory
               /\ NoCallMade
          ELSE /\ supported[p] \/ e = ZERO32
               /\ life' = [life EXCEPT
                              !.stage = "supports_sups_ex",
                              !.registered =
                                  IF supported[p]
                                  THEN @ \cup {"bbapi_power"} ELSE @,
                              !.startup =
                                  IF supported[p]
                                  THEN @ \cup {"bbapi_power"} ELSE @]
               /\ rw_enter(p, bbapi_supports_sups_ex)
               /\ UNCHANGED <<memory, boot>>
    /\ UNCHANGED <<g_bbapi_search_area, flash, unload>>

\* bbapi_supports_sups(): the second probe is made if the first said no
init_supports_sups(p) ==
    /\ life.stage = "supports_sups_ex"
    /\ pc[p] = "idle"
    /\ IF supported[p]
       THEN /\ life' = [life EXCEPT !.stage = "register_sups"]
            /\ NoCallMade
       ELSE /\ life' = [life EXCEPT !.stage = "supports_sups_pin"]
            /\ rw_enter(p, bbapi_supports_sups_pin)
    /\ UNCHANGED boot_vars

\* platform_device_register(&bbapi_sups) if either probe said so; on
\* failure goto rollback_power, which probes bbapi_supports_power() again
init_register_sups(p) ==
    /\ \/ life.stage = "register_sups"
       \/ life.stage = "supports_sups_pin"
    /\ pc[p] = "idle"
    /\ LET sups == life.stage = "register_sups" \/ supported[p]
       IN  \E e \in RegisterErrors \cup {ZERO32} :
              IF sups /\ e # ZERO32
              THEN /\ life' = [life EXCEPT !.stage = "un_supports_power",
                                           !.result = e]
                   /\ rw_enter(p, bbapi_supports_power)
              ELSE /\ sups \/ e = ZERO32
                   /\ life' = [life EXCEPT
                                  !.stage = "cdev_init",
                                  !.registered =
                                      IF sups THEN @ \cup {"bbapi_sups"}
                                      ELSE @,
                                  !.startup =
                                      IF sups THEN @ \cup {"bbapi_sups"}
                                      ELSE @]
                   /\ NoCallMade
    /\ UNCHANGED boot_vars

\* simple_cdev_init; on failure goto rollback_sups, which probes
\* bbapi_supports_sups() again; then the probe of bbapi_supports_display()
init_simple_cdev_init(p) ==
    /\ life.stage = "cdev_init"
    /\ pc[p] = "idle"
    /\ \E e \in RegisterErrors \cup {ZERO32} :
          IF e # ZERO32
          THEN /\ life' = [life EXCEPT !.stage = "un_supports_sups_ex",
                                       !.result = e]
               /\ rw_enter(p, bbapi_supports_sups_ex)
          ELSE /\ life' = [life EXCEPT !.stage = "supports_display",
                                       !.cdev = TRUE]
               /\ rw_enter(p, bbapi_supports_display)
    /\ UNCHANGED boot_vars

\* update_display() if the probe said so: two writes, a read and a write,
\* none of whose results is looked at; then bbapi_init_bios()
update_display(p) ==
    /\ life.stage \in {"supports_display", "display_line2",
                       "display_boardname", "display_line1",
                       "display_backlight"}
    /\ pc[p] = "idle"
    /\ LET next ==
               IF life.stage = "supports_display"
               THEN IF supported[p] THEN "display_line2" ELSE "init_bios"
               ELSE IF life.stage = "display_line2" THEN "display_boardname"
               ELSE IF life.stage = "display_boardname" THEN "display_line1"
               ELSE IF life.stage = "display_line1" THEN "display_backlight"
               ELSE "init_bios"
       IN  /\ life' = [life EXCEPT !.stage = next]
           /\ rw_enter(p, IF next = "init_bios" THEN InitCall
                          ELSE IF next = "display_line2"
                          THEN rw_call("bbapi_write", 1, 4)
                          ELSE IF next = "display_boardname"
                          THEN rw_call("bbapi_read", 0, 1)
                          ELSE IF next = "display_line1"
                          THEN rw_call("bbapi_write", 1, 3)
                          ELSE rw_call("bbapi_write", 1, 2))
    /\ UNCHANGED boot_vars

\* return bbapi_init_bios(): 0 whatever the firmware answered
init_return(p) ==
    /\ life.stage = "init_bios"
    /\ pc[p] = "idle"
    /\ life' = [life EXCEPT !.stage = "live", !.result = ZERO32]
    /\ NoCallMade
    /\ UNCHANGED boot_vars

\* bbapi_exit, run on a module whose bbapi_init_module returned 0, up to
\* the call of bbapi_write in bbapi_exit_bios
bbapi_exit(p) ==
    /\ life.stage = "live"
    /\ unload = "no"
    /\ memory # NULL
    /\ rw_enter(p, ExitCall)
    /\ unload' = "exiting"
    /\ life' = [life EXCEPT !.stage = "exit_bios", !.leaving = TRUE]
    /\ UNCHANGED <<g_bbapi_search_area, flash, memory, boot>>

\* bbapi_exit after bbapi_exit_bios: simple_cdev_remove, and the first
\* probe of bbapi_supports_sups()
exit_simple_cdev_remove(p) ==
    /\ life.stage = "exit_bios"
    /\ pc[p] = "idle"
    /\ life' = [life EXCEPT !.stage = "un_supports_sups_ex", !.cdev = FALSE]
    /\ rw_enter(p, bbapi_supports_sups_ex)
    /\ UNCHANGED boot_vars

\* rollback_sups, and the same lines of bbapi_exit: the probes of
\* bbapi_supports_sups() made again, platform_device_unregister(&bbapi_sups)
\* if one says yes; then the probe of bbapi_supports_power()
unregister_sups(p) ==
    /\ life.stage \in {"un_supports_sups_ex", "un_supports_sups_pin"}
    /\ pc[p] = "idle"
    /\ IF supported[p]
       THEN /\ life' = [platform_device_unregister(life, "bbapi_sups")
                           EXCEPT !.stage = "un_supports_power"]
            /\ rw_enter(p, bbapi_supports_power)
       ELSE IF life.stage = "un_supports_sups_ex"
       THEN /\ life' = [life EXCEPT !.stage = "un_supports_sups_pin"]
            /\ rw_enter(p, bbapi_supports_sups_pin)
       ELSE /\ life' = [life EXCEPT !.stage = "un_supports_power"]
            /\ rw_enter(p, bbapi_supports_power)
    /\ UNCHANGED boot_vars

\* rollback_power and rollback_memory, and the same lines of bbapi_exit:
\* platform_device_unregister(&bbapi_power) if the probe made again says
\* yes, then vfree(g_bbapi.memory)
unregister_power(p) ==
    /\ life.stage = "un_supports_power"
    /\ pc[p] = "idle"
    /\ life' = [(IF supported[p]
                 THEN platform_device_unregister(life, "bbapi_power")
                 ELSE life)
                   EXCEPT !.stage = IF life.leaving THEN "unloaded"
                                    ELSE "init_failed"]
    /\ vfree_memory
    /\ unload' = IF life.leaving THEN "done" ELSE unload
    /\ NoCallMade
    /\ UNCHANGED <<g_bbapi_search_area, flash>>

(***************************************************************************)
(* Specifications.  Spec: every caller issues external and internal calls  *)
(* concurrently.  SpecGate: one caller sends every request of IoctlCalls   *)
(* through the gateway.                                                    *)
(***************************************************************************)
Next ==
    /\ \/ bbapi_find_bios
       \/ \E p \in Procs :
             \/ \E c \in SomeIoctlCalls : bbapi_ioctl(p, c)
             \/ ioctl_mutex_lock(p)
             \/ bbapi_ioctl_mutexed(p)
             \/ ioctl_bbapi_call(p)
             \/ ioctl_firmware_return(p)
             \/ bbapi_ioctl_mutexed_return(p)
             \/ ioctl_mutex_unlock(p)
             \/ \E c \in RwCalls : bbapi_rw(p, c)
             \/ rw_mutex_lock(p)
             \/ rw_bbapi_call(p)
             \/ rw_firmware_return(p)
             \/ rw_mutex_unlock(p)
    /\ UNCHANGED <<prev_failed, life>>

Spec == Init /\ [][Next]_vars

\* The gateway in any state it can be in when a request arrives: not yet
\* initialised with its zeroed buffers, or ready with whatever earlier
\* requests left in the scratch buffers.
InitGate ==
    /\ BIOSAPIERR_OFFSET \in BuildOffsets
    /\ entry \in {NULL, IMAGE}
    /\ mutex = 0
    /\ bbapi_in \in [1..sizeof_in -> Bytes]
    /\ bbapi_out \in [1..sizeof_out -> Bytes]
    /\ (entry = NULL => bbapi_in = Fill(sizeof_in, 0) /\ bbapi_out = Fill(sizeof_out, 0))
    /\ pc = [p \in Procs |-> "idle"]
    /\ call = [p \in Procs |-> NoCall]
    /\ bbstruct = [p \in Procs |-> NoCall]
    /\ ret = [p \in Procs |-> ZERO32]
    /\ written = [p \in Procs |-> 0]
    /\ result = [p \in Procs |-> ZERO32]
    /\ supported = [p \in Procs |-> FALSE]
    /\ user_out = [p \in Procs |-> <<>>]
    /\ user_bytes = [p \in Procs |-> 0]
    /\ fw_active = {}
    /\ eff = [p \in Procs |-> NoEff]
    /\ g_bbapi_search_area = BBIOSAPI_SIGNATURE_SEARCH_AREA
    /\ flash = PlantedFlash(37, U32(8192))
    /\ boot = IF entry = NULL THEN NotBooted
              ELSE find_bios(flash, g_bbapi_search_area, TRUE, TRUE, TRUE)
    /\ memory = boot.memory
    /\ unload = "no"
    /\ prev_failed = [p \in Procs |-> FALSE]
    /\ life = NotLoaded

NextGate ==
    /\ \/ call[1] = NoCall /\ \E c \in IoctlCalls : bbapi_ioctl(1, c)
       \/ ioctl_mutex_lock(1)
       \/ bbapi_ioctl_mutexed(1)
       \/ ioctl_bbapi_call(1)
       \/ ioctl_firmware_return(1)
       \/ bbapi_ioctl_mutexed_return(1)
       \/ ioctl_mutex_unlock(1)
    /\ UNCHANGED <<prev_failed, life>>

SpecGate == InitGate /\ [][NextGate]_vars

\* Discovery over every flash of Flashes and every search_area of
\* SearchAreas, then one caller's calls on both paths.
InitBoot ==
    /\ BIOSAPIERR_OFFSET \in BuildOffsets
    /\ entry = NULL
    /\ mutex = 0
    /\ bbapi_in = Fill(sizeof_in, 0)
    /\ bbapi_out = Fill(sizeof_out, 0)
    /\ pc = [p \in Procs |-> "idle"]
    /\ call = [p \in Procs |-> NoCall]
    /\ bbstruct = [p \in Procs |-> NoCall]
    /\ ret = [p \in Procs |-> ZERO32]
    /\ written = [p \in Procs |-> 0]
    /\ result = [p \in Procs |-> ZERO32]
    /\ supported = [p \in Procs |-> FALSE]
    /\ user_out = [p \in Procs |-> <<>>]
    /\ user_bytes = [p \in Procs |-> 0]
    /\ fw_active = {}
    /\ eff = [p \in Procs |-> NoEff]
    /\ g_bbapi_search_area \in SearchAreas
    /\ flash \in Flashes
    /\ memory = NULL
    /\ boot = NotBooted
    /\ unload = "no"
    /\ prev_failed = [p \in Procs |-> FALSE]
    /\ life = NotLoaded

\* History kept for the caller that enters a call: whether its previous
\* call was made with the entry point published and returned an error.
NotePrevious(p) ==
    prev_failed' = [prev_failed EXCEPT
                       ![p] = /\ call[p].path # "none"
                              /\ eff[p].entry # NULL
                              /\ result[p] # ZERO32]

NextBoot ==
    \/ /\ \/ \E c \in SomeIoctlCalls : boot.ran /\ bbapi_ioctl(1, c)
          \/ \E c \in RwCalls : boot.ran /\ bbapi_rw(1, c)
       /\ NotePrevious(1)
       /\ UNCHANGED life
    \/ /\ \/ bbapi_find_bios
          \/ ioctl_mutex_lock(1)
          \/ bbapi_ioctl_mutexed(1)
          \/ ioctl_bbapi_call(1)
          \/ ioctl_firmware_return(1)
          \/ bbapi_ioctl_mutexed_return(1)
          \/ ioctl_mutex_unlock(1)
          \/ rw_mutex_lock(1)
          \/ rw_bbapi_call(1)
          \/ rw_firmware_return(1)
          \/ rw_mutex_unlock(1)
       /\ UNCHANGED <<prev_failed, life>>

SpecBoot == InitBoot /\ [][NextBoot]_vars

\* The module loaded and unloaded by thread 1 while caller 2 uses it with
\* the external requests ioctls and the internal calls rws: the
\* character device answers from simple_cdev_init to bbapi_exit, the
\* exported bbapi_read and bbapi_write once bbapi_init_module has returned,
\* and nothing in api.c keeps them from being called after bbapi_exit;
\* bbapi_exit runs when nobody is inside the module.
module_step(ioctls, rws) ==
    /\ \/ bbapi_find_bios /\ UNCHANGED life
       \/ init_supports_power(1)
       \/ init_register_power(1)
       \/ init_supports_sups(1)
       \/ init_register_sups(1)
       \/ init_simple_cdev_init(1)
       \/ update_display(1)
       \/ init_return(1)
       \/ pc[2] = "idle" /\ bbapi_exit(1)
       \/ exit_simple_cdev_remove(1)
       \/ unregister_sups(1)
       \/ unregister_power(1)
       \/ /\ \E c \in ioctls :
                life.cdev /\ unload = "no" /\ bbapi_ioctl(2, c)
          /\ UNCHANGED life
       \/ /\ \E c \in rws :
                life.stage \in {"live", "unloaded"} /\ bbapi_rw(2, c)
          /\ UNCHANGED life
       \/ /\ \E p \in Procs :
                \/ ioctl_mutex_lock(p)
                \/ bbapi_ioctl_mutexed(p)
                \/ ioctl_bbapi_call(p)
                \/ ioctl_firmware_return(p)
                \/ bbapi_ioctl_mutexed_return(p)
                \/ ioctl_mutex_unlock(p)
                \/ rw_mutex_lock(p)
                \/ rw_bbapi_call(p)
                \/ rw_firmware_return(p)
                \/ rw_mutex_unlock(p)
          /\ UNCHANGED life
    /\ UNCHANGED prev_failed

\* Scheduling: a thread that can run does run, the firmware returns, and
\* mutex_lock is granted to a waiter that keeps finding the mutex free
\* again and again.
FairLife ==
    \A p \in Procs :
        /\ SF_vars((ioctl_mutex_lock(p) \/ rw_mutex_lock(p))
                   /\ UNCHANGED <<prev_failed, life>>)
        /\ WF_vars((\/ bbapi_ioctl_mutexed(p)
                    \/ ioctl_bbapi_call(p)
                    \/ ioctl_firmware_return(p)
                    \/ bbapi_ioctl_mutexed_return(p)
                    \/ ioctl_mutex_unlock(p)
                    \/ rw_bbapi_call(p)
                    \/ rw_firmware_return(p)
                    \/ rw_mutex_unlock(p))
                   /\ UNCHANGED <<prev_failed, life>>)

NextLife == module_step(SomeIoctlCalls, RwCalls)

SpecLife == Init /\ [][NextLife]_vars

\* The same with the scheduling stated, caller 2 issuing one valid external
\* request or one bbapi_read at a time.
NextFair ==
    module_step({ValidIoctlCall}, {rw_call("bbapi_read", 0, 1)})

SpecFair == Init /\ [][NextFair]_vars /\ FairLife

TypeOK ==
    /\ entry \in {NULL, IMAGE}
    /\ mutex \in {0} \cup Procs
    /\ fw_active \subseteq Procs

(***************************************************************************)
(* Properties.                                                             *)
(***************************************************************************)
\* An external request proper: a recognised command whose descriptor could
\* be read, so that its fields exist for the gateway.
IsRequest(c) ==
    c.path = "ioctl" /\ c.cmd \in {BBAPI_CMD, BBAPI_CMD_LEGACY} /\ c.argOk

\* The reserved field is null, or absent as in the short form.
ReservedNull(c) == c.cmd = BBAPI_CMD_LEGACY \/ c.pMode = NULL

Oversized(c) == c.nIn > sizeof_in \/ c.nOut > sizeof_out

\* The entry point was published when caller p entered its call.
Ready(p) == eff[p].entry # NULL

\* The call of p has not invoked the firmware, taken the lock, touched a
\* scratch buffer or touched the caller's data buffers.
Untouched(p) ==
    /\ eff[p].fw = 0
    /\ eff[p].locks = 0
    /\ ~eff[p].scratch
    /\ ~eff[p].urd
    /\ ~eff[p].uwr
    /\ user_out[p] = <<>>
    /\ user_bytes[p] = 0

\* C1: in READY, an external request with a null reserved field and an
\* offset >= 0xB0 is answered -EACCES at once, whatever its group, sizes
\* and payload: no firmware invocation, no lock, no scratch or caller
\* buffer touched.
C1_AccessError ==
    \A p \in Procs :
        (/\ IsRequest(call[p])
         /\ Ready(p)
         /\ ReservedNull(call[p])
         /\ call[p].offset >= 176)
        => /\ pc[p] = "idle"
           /\ result[p] = Err(EACCES)
           /\ Untouched(p)

\* C1 witness: offset 0xB5 with an oversized input, refused with -EACCES.
C1_Witness ==
    /\ call[1].path = "ioctl" /\ call[1].cmd = BBAPI_CMD_LEGACY /\ call[1].argOk
    /\ call[1].offset = 181
    /\ call[1].nIn = sizeof_in + 1
    /\ eff[1].entry # NULL
    /\ pc[1] = "idle"
    /\ result[1] = Err(EACCES)

\* C2 as stated: an offset >= 0xB0 is answered -EACCES whatever the other
\* fields hold, a non-null reserved field included.
C2_Original ==
    \A p \in Procs :
        (IsRequest(call[p]) /\ Ready(p) /\ call[p].offset >= 176 /\ pc[p] = "idle")
        => result[p] = Err(EACCES)

\* C2 amended: the threshold check comes after the reserved-field check and
\* before the size checks and the staging: an offset >= 0xB0 is answered at
\* once, before the lock, with -EACCES whatever the sizes when the reserved
\* field is null, and with -EINVAL when it is not.
C2_AccessAfterReserved ==
    \A p \in Procs :
        (IsRequest(call[p]) /\ Ready(p) /\ call[p].offset >= 176)
        => /\ pc[p] = "idle"
           /\ eff[p].locks = 0
           /\ ~eff[p].scratch
           /\ result[p] = IF ReservedNull(call[p]) THEN Err(EACCES)
                                                   ELSE Err(EINVAL)

\* C2 witness: offset 0xB0, non-null reserved field, oversized output.
C2_Witness ==
    /\ call[1].path = "ioctl" /\ call[1].cmd = BBAPI_CMD /\ call[1].argOk
    /\ call[1].offset = 176
    /\ call[1].pMode # NULL
    /\ call[1].nOut = sizeof_out + 1
    /\ eff[1].entry # NULL
    /\ pc[1] = "idle"
    /\ result[1] = Err(EINVAL)

\* C3 as stated: in READY every external request with an oversized input or
\* output is answered -EINVAL, without firmware invocation or scratch access.
C3_Original ==
    \A p \in Procs :
        (/\ call[p].path = "ioctl" /\ Ready(p)
         /\ Oversized(call[p])
         /\ pc[p] = "idle")
        => /\ result[p] = Err(EINVAL)
           /\ eff[p].fw = 0
           /\ ~eff[p].scratch

\* C3 amended: in READY an external request with an oversized input or
\* output never reaches the firmware and no step of it changes a scratch
\* buffer; it is answered -EINVAL, except that with a null reserved field
\* and an offset >= 0xB0 it is answered -EACCES; a request valid otherwise
\* whose sizes equal the capacities reaches the firmware.
C3_SizeRejected ==
    [][\A p \in Procs :
          (call'[p].path = "ioctl" /\ eff'[p].entry # NULL)
          => /\ Oversized(call'[p])
                => /\ bbapi_in' = bbapi_in
                   /\ bbapi_out' = bbapi_out
                   /\ fw_active' = {}
                   /\ eff'[p].fw = 0
                   /\ ~eff'[p].scratch
                   /\ pc'[p] = "idle"
                      => result'[p] =
                            IF /\ IsRequest(call'[p])
                               /\ ReservedNull(call'[p])
                               /\ call'[p].offset >= 176
                            THEN Err(EACCES) ELSE Err(EINVAL)
             /\ (/\ IsRequest(call'[p])
                 /\ ReservedNull(call'[p])
                 /\ call'[p].offset < 176
                 /\ call'[p].nIn = sizeof_in /\ call'[p].pIn = USER
                 /\ call'[p].nOut = sizeof_out
                 /\ pc'[p] = "idle")
                => eff'[p].fw = 1]_vars

\* C3 witness: an oversized input below the threshold, refused under the
\* lock with -EINVAL.
C3_Witness ==
    /\ IsRequest(call[1]) /\ ReservedNull(call[1])
    /\ call[1].offset = 175
    /\ call[1].nIn = sizeof_in + 1
    /\ call[1].nOut = sizeof_out
    /\ eff[1].entry # NULL
    /\ eff[1].locks = 1
    /\ pc[1] = "idle"
    /\ result[1] = Err(EINVAL)

\* C4: a full-form external request with a non-null reserved field is
\* answered -EINVAL at once, whatever its group, offset, sizes and buffer
\* pointers: nothing staged, no firmware invocation.
C4_ReservedRejected ==
    \A p \in Procs :
        (call[p].path = "ioctl" /\ call[p].cmd = BBAPI_CMD /\ call[p].pMode # NULL)
        => /\ pc[p] = "idle"
           /\ result[p] = Err(EINVAL)
           /\ Untouched(p)

\* C4 witness: a request valid but for its reserved field, refused in READY.
C4_Witness ==
    /\ call[1].path = "ioctl" /\ call[1].cmd = BBAPI_CMD /\ call[1].argOk
    /\ call[1].pMode # NULL
    /\ call[1].offset = 175
    /\ call[1].nIn = sizeof_in /\ call[1].pIn = USER
    /\ call[1].nOut = sizeof_out /\ call[1].pOut = USER
    /\ eff[1].entry # NULL
    /\ pc[1] = "idle"
    /\ result[1] = Err(EINVAL)

\* C5: every call issued, internal or external, that is valid (Accepted)
\* invokes the firmware exactly once and every other call never does, so
\* that N such calls make N invocations; and no two invocations are in
\* progress at the same time.
C5_Serialized ==
    /\ Cardinality(fw_active) <= 1
    /\ \A p \in Procs :
          /\ eff[p].fw <= 1
          /\ (p \in fw_active => mutex = p)
          /\ (call[p].path # "none" /\ pc[p] = "idle")
             => eff[p].fw = IF Accepted(eff[p].entry, call[p]) THEN 1 ELSE 0

\* C5 witness: an external request is inside the firmware while an internal
\* call of another caller waits for the lock.
C5_Witness ==
    \E p, q \in Procs :
        /\ pc[p] = "in_fw" /\ call[p].path = "ioctl"
        /\ pc[q] = "rw_lock" /\ call[q].path = "rw"
        /\ fw_active = {p}

\* C6: whoever stands at a step that reads or writes a scratch buffer holds
\* the lock; the input the firmware saw is what the request staged, the
\* caller's payload; the bytes copied back are those the request's own
\* invocation left in the output scratch buffer.
C6_ScratchOwned ==
    \A p \in Procs :
        /\ pc[p] \in {"mutexed", "call", "in_fw", "post_call", "ioctl_unlock"}
           => mutex = p
        /\ (pc[p] \in {"in_fw", "post_call", "ioctl_unlock"} /\ eff[p].fw = 1)
           => /\ eff[p].seen = eff[p].staged
              /\ eff[p].seen = Fill(call[p].nIn, call[p].data)
        /\ (pc[p] = "ioctl_unlock" /\ eff[p].fw = 1 /\ result[p] = ZERO32)
           => /\ Len(user_out[p]) = written[p]
              /\ \A i \in 1..Min(written[p], sizeof_out) :
                    user_out[p][i] = eff[p].left[i]

\* C6 witness: a request has its output copied back while another external
\* request waits for the lock.
C6_Witness ==
    \E p, q \in Procs :
        /\ pc[p] = "ioctl_unlock" /\ eff[p].fw = 1 /\ result[p] = ZERO32
        /\ written[p] = sizeof_out
        /\ user_out[p] = eff[p].left
        /\ pc[q] = "ioctl_lock"

\* C7: a nonzero firmware status s makes the call return -(s | offset) in 32
\* bits on both paths; nothing reaches the caller's output buffer or
\* bytes-written destination, and the entry pointer stays as it was.
C7_FirmwareError ==
    \A p \in Procs :
        ret[p] # ZERO32
        => /\ user_out[p] = <<>>
           /\ user_bytes[p] = 0
           /\ ~eff[p].uwr
           /\ entry = eff[p].entry
           /\ pc[p] \in {"ioctl_unlock", "idle"}
              => result[p] = Neg32(Or32(ret[p], BIOSAPIERR_OFFSET))

\* C7 witness: status 0x02 on the external path, returned as -(0x20000002).
C7_Witness ==
    \E p, q \in Procs :
        /\ BIOSAPIERR_OFFSET = <<8192, 0>>
        /\ pc[p] = "idle" /\ call[p].path = "ioctl"
        /\ ret[p] = U32(2)
        /\ result[p] = <<57343, 65534>>
        /\ pc[q] = "idle" /\ call[q].path = "rw"
        /\ ret[q] = U32(2)
        /\ result[q] = <<57343, 65534>>

C9_Disjoint ==
    \A p \in Procs :
        (ret[p] # ZERO32 /\ pc[p] = "idle")
        => result[p] \notin {Err(EINVAL), Err(EACCES), Err(EFAULT)}

\* C10: bbapi_supports answers true exactly when the entry point is
\* published and the firmware's status for the probe is "invalid size" or
\* "invalid parameter", raw (2, 3) or already carrying the build's offset
\* constant; the answer depends on that status alone.
C10_Supports ==
    \A p \in Procs :
        (call[p].cmd = "bbapi_supports" /\ pc[p] = "idle")
        => supported[p] =
              /\ eff[p].entry # NULL
              /\ \/ ret[p] \in {U32(2), U32(3)}
                 \/ /\ ret[p] # ZERO32
                    /\ ret[p] \in {BIOSAPI_INVALIDSIZE(BIOSAPIERR_OFFSET),
                                   BIOSAPI_INVALIDPARM(BIOSAPIERR_OFFSET)}

\* C10 witness: one probe answered "invalid size" and reported supported,
\* another answered "not supported" and reported unsupported.
C10_Witness ==
    \E p, q \in Procs :
        /\ call[p].cmd = "bbapi_supports" /\ pc[p] = "idle"
        /\ ret[p] = U32(2) /\ supported[p]
        /\ call[q].cmd = "bbapi_supports" /\ pc[q] = "idle"
        /\ ret[q] = U32(1) /\ ~supported[q]

\* unsigned comparison of 32-bit words
Lt32(x, y) == x[1] < y[1] \/ (x[1] = y[1] /\ x[2] < y[2])

\* x >= y + n as numbers, for 0 <= n < 2^16
GePlus32(x, y, n) ==
    /\ ~Lt32(x, y)
    /\ \/ x[1] - y[1] >= 2
       \/ (x[1] - y[1]) * W16 + x[2] - y[2] >= n

\* offsets of the window [0, area) at which the 8 signature bytes lie
SigPositions(fl, area) == {p \in 0..(area - 8) : SignatureAt(fl, p)}

\* discovery ran over a window that was mapped
Scanned == boot.ran /\ boot.maps = 1

\* C11 as stated: a signature lying at exactly one offset p of the window,
\* its 8 bytes inside the window, is found at p whatever p mod 16 is; a
\* window without signature is scanned through all 16 phases and discovery
\* fails with -EFAULT.
C11_ScanFinds ==
    Scanned =>
        LET ps == SigPositions(flash, g_bbapi_search_area)
        IN  /\ \A p \in ps : ps = {p} => boot.found /\ boot.pos = p
            /\ ps = {} => /\ ~boot.found
                          /\ boot.off = STEP_SIZE
                          /\ boot.result = Neg32(U32(EFAULT))
                          /\ entry = NULL

\* C12 as stated: for a matched signature with length field L the loader
\* allocates L + 4096 bytes, copies L + 4096 bytes from the match position
\* and sets entry = base + L.
C12_ShadowSize ==
    (boot.found /\ boot.memory = ALLOCATED) =>
        LET L == ioread32(flash, boot.pos + 8)
        IN  /\ boot.size = Add32(L, IMAGE_MARGIN)
            /\ ~Lt32(boot.size, L)
            /\ boot.copied = boot.size
            /\ boot.offset = L
            /\ entry = IMAGE

\* C13 as stated: a published entry pointer lies strictly inside
\* [base, base + size), and size >= L + 4096, for every 32-bit L.
C13_EntryInBounds ==
    entry # NULL =>
        /\ Lt32(boot.offset, boot.size)
        /\ GePlus32(boot.size, ioread32(flash, boot.pos + 8), IMAGE_MARGIN)

\* discovery returned an error
StartupFailed == boot.ran /\ boot.result # ZERO32

C15_MappingReleased ==
    /\ boot.unmaps = boot.maps
    /\ boot.maps <= 1
    /\ boot.ran
       => /\ g_bbapi_search_area > BBIOSAPI_SIGNATURE_SEARCH_AREA
             => /\ boot.maps = 0
                /\ boot.result = Neg32(U32(EFAULT))
                /\ entry = NULL
          /\ (boot.found \/ boot.off = STEP_SIZE) => boot.maps = 1

\* C15 witness: a match whose shadowing failed, the mapping released.
C15_Witness ==
    /\ boot.ran /\ boot.found
    /\ boot.result = Neg32(U32(ENOMEM))
    /\ boot.maps = 1 /\ boot.unmaps = 1

\* C16 as stated: once bbapi_exit has sent the shutdown notification and
\* released the image buffer, every later call on either path is refused
\* without invoking the firmware; the buffer is released once and the
\* bridge does not become ready again.
C16_Stopped ==
    [][unload = "done"
       => /\ fw_active' \subseteq fw_active
          /\ memory' = FREED
          /\ boot'.frees = 1]_vars

\* C17: a request that fails while the entry point is published (with
\* -EINVAL, -EACCES, -EFAULT or a firmware error) leaves the entry pointer
\* and the image buffer as they were and the lock free; and a valid
\* request made after a failed one reaches the firmware.
C17_FailureLeavesReady ==
    \A p \in Procs :
        /\ (/\ call[p].path # "none" /\ pc[p] = "idle"
            /\ eff[p].entry # NULL /\ result[p] # ZERO32
            /\ unload = "no")
           => /\ entry = eff[p].entry
              /\ memory = ALLOCATED
              /\ boot.result = ZERO32
              /\ mutex = 0
        /\ (prev_failed[p] /\ Accepted(eff[p].entry, call[p]))
           => /\ pc[p] # "idle" => mutex \in {0, p}
              /\ pc[p] = "idle" => eff[p].fw = 1

\* C17 witness: a valid external request is inside the firmware, made by a
\* caller whose previous request had failed.
C17_Witness ==
    /\ prev_failed[1]
    /\ unload = "no"
    /\ IsRequest(call[1]) /\ Accepted(eff[1].entry, call[1])
    /\ pc[1] = "in_fw"
    /\ mutex = 1

\* the full-form request with the fields of c and both trailing fields null
FullFormTwin(c) == [c EXCEPT !.cmd = BBAPI_CMD, !.pBytes = NULL, !.pMode = NULL]

\* C18: a short-form request is treated as the full-form request with the
\* same group, offset, pointers and sizes whose bytes-written and reserved
\* fields are null: the gateway works on the same descriptor, the checks
\* ahead of the lock give the same verdict, the request goes on to the same
\* steps, and no bytes-written count is stored, whatever follows the short
\* descriptor in caller memory.
C18_LegacyAsFull ==
    \A p \in Procs :
        (call[p].path = "ioctl" /\ call[p].cmd = BBAPI_CMD_LEGACY)
        => LET t == FullFormTwin(call[p])
               v == bbapi_ioctl_check(eff[p].entry, t)
           IN  /\ bbstruct[p] = [copy_bbstruct(t) EXCEPT !.cmd = BBAPI_CMD_LEGACY]
               /\ ~v.ok => /\ pc[p] = "idle"
                           /\ result[p] = v.val
                           /\ Untouched(p)
               /\ v.ok => pc[p] # "idle" \/ eff[p].locks = 1
               /\ user_bytes[p] = 0
               /\ eff[p].uwr => Len(user_out[p]) > 0

\* C18 witness: a short-form request followed in caller memory by non-null
\* bytes has been served: output copied, no count stored.
C18_Witness ==
    /\ call[1].path = "ioctl" /\ call[1].cmd = BBAPI_CMD_LEGACY /\ call[1].argOk
    /\ call[1].pMode = USER /\ call[1].pBytes = USER
    /\ pc[1] = "idle"
    /\ eff[1].fw = 1
    /\ ret[1] = ZERO32
    /\ result[1] = ZERO32
    /\ Len(user_out[1]) = sizeof_out
    /\ user_bytes[1] = 0

\* C19 as stated: when the firmware returned status 0 the gateway copies
\* the output scratch bytes to the caller's output buffer, stores the count
\* iff a bytes-written destination was supplied and returns 0; when the
\* output copy or the copy of the count fails it returns -EFAULT.
C19_CopyBack ==
    \A p \in Procs :
        (pc[p] = "ioctl_unlock" /\ eff[p].fw = 1 /\ ret[p] = ZERO32)
        => IF \/ written[p] > 0 /\ bbstruct[p].pOut # USER
              \/ bbstruct[p].pBytes = BAD
           THEN result[p] = Err(EFAULT)
           ELSE /\ result[p] = ZERO32
                /\ Len(user_out[p]) = written[p]
                /\ \A i \in 1..Min(written[p], sizeof_out) :
                      user_out[p][i] = eff[p].left[i]
                /\ user_bytes[p] = IF bbstruct[p].pBytes # NULL
                                   THEN written[p] ELSE 0

\* C20: an external request holds the lock at every step from the size
\* checks and the staging of its input to the copy-back, took it once, and
\* does not hold it before that or once it has returned, whichever way it
\* returned.
C20_LockHeld ==
    \A p \in Procs :
        /\ eff[p].locks <= 1
        /\ pc[p] \in {"mutexed", "call", "in_fw", "post_call", "ioctl_unlock"}
           => mutex = p /\ eff[p].locks = 1
        /\ pc[p] \in {"idle", "ioctl_lock"} => mutex # p
        /\ (call[p].path = "ioctl" /\ pc[p] = "idle")
           => eff[p].locks = IF bbapi_ioctl_check(eff[p].entry, call[p]).ok
                             THEN 1 ELSE 0

\* C20 witness: one request returned after the size rejection and another
\* after a failed copy-back; the lock is free.
C20_Witness ==
    \E p, q \in Procs :
        /\ pc[p] = "idle" /\ call[p].path = "ioctl"
        /\ eff[p].locks = 1 /\ eff[p].fw = 0
        /\ call[p].nIn > sizeof_in /\ result[p] = Err(EINVAL)
        /\ pc[q] = "idle" /\ call[q].path = "ioctl"
        /\ eff[q].locks = 1 /\ eff[q].fw = 1
        /\ ret[q] = ZERO32 /\ result[q] = Err(EFAULT)
        /\ mutex = 0

\* C25 as stated: for every successful external request the number of bytes
\* copied from the output scratch buffer to the caller's output buffer
\* exceeds neither the request's declared output size nor the capacity of
\* the output scratch buffer, whatever byte count the firmware reports.
C25_CopyBounded ==
    \A p \in Procs :
        (/\ call[p].path = "ioctl" /\ pc[p] = "ioctl_unlock"
         /\ eff[p].fw = 1 /\ result[p] = ZERO32)
        => /\ Len(user_out[p]) <= bbstruct[p].nOut
           /\ Len(user_out[p]) <= sizeof_out

\* the number of pages that hold n + IMAGE_MARGIN bytes, n a 32-bit word
PagesHolding(n) ==
    n[1] * (W16 \div 2 ^ PAGE_SHIFT)
    + (n[2] + 2 ^ PAGE_SHIFT - 1) \div 2 ^ PAGE_SHIFT
    + IMAGE_MARGIN \div 2 ^ PAGE_SHIFT

\* C22 as stated: for every length field L, when the entry point is
\* published the pages made executable (size >> PAGE_SHIFT, size = L + 4096)
\* cover all L + 4096 bytes of the shadow buffer, also when L is not a
\* multiple of the page size.
C22_ExecCovers ==
    entry # NULL =>
        boot.pages >= PagesHolding(ioread32(flash, boot.pos + 8))

\* C26 as stated: for every match position and every length field L the
\* shadow copy reads only bytes inside the mapped search window (match
\* position + L + 4096 does not exceed the window end), and the 8-byte read
\* of the scan at the match lies inside the window.
C26_ReadsInWindow ==
    Scanned =>
        /\ boot.found => boot.pos + 8 <= g_bbapi_search_area
        /\ boot.copied # ZERO32
           => /\ boot.copied[1] = 0
              /\ boot.pos + boot.copied[2] <= g_bbapi_search_area

\* p comes no later than q in the order the scan visits offsets
ScanBefore(p, q) ==
    \/ p % STEP_SIZE < q % STEP_SIZE
    \/ p % STEP_SIZE = q % STEP_SIZE /\ p <= q

\* the matches the scan can visit: signature offsets up to window size - 16
Matches ==
    {p \in SigPositions(flash, g_bbapi_search_area) :
        p <= g_bbapi_search_area - STEP_SIZE}

\* C28: when the window holds the signature at several offsets, the image
\* shadowed is the one at the first match in scan order, the offset p
\* minimising (p mod 16, p) among the matches with p <= window size - 16;
\* the scan stops at that match and at most one image is shadowed.
C28_FirstMatch ==
    Scanned =>
        /\ boot.found = (Matches # {})
        /\ boot.found
           => /\ boot.pos \in Matches
              /\ \A q \in Matches : ScanBefore(boot.pos, q)
              /\ boot.off = boot.pos % STEP_SIZE
              /\ boot.offset = ioread32(flash, boot.pos + 8)
        /\ boot.allocs <= 1
        /\ entry # NULL => boot.found /\ boot.allocs = 1

\* C28 witness: two matches in the window, and the image shadowed and
\* published is the one at the higher address, found in an earlier phase.
C28_Witness ==
    /\ Scanned
    /\ entry = IMAGE
    /\ boot.allocs = 1
    /\ \E q \in Matches : q < boot.pos

\* C21: when every firmware call returns and the lock is granted fairly,
\* every call (an external request, an internal bbapi_rw call, a call the
\* module makes during startup, rollback or shutdown) returns, and the lock
\* is free again after it was taken: nothing waits for a lock its own
\* thread holds.
C21_Terminates ==
    /\ \A p \in Procs : (pc[p] # "idle") ~> (pc[p] = "idle")
    /\ (mutex # 0) ~> (mutex = 0)

\* C21 witness: the module's thread is inside the firmware for
\* bbapi_init_bios while an external request waits for the lock.
C21_Witness ==
    /\ life.stage = "init_bios"
    /\ pc[1] = "rw_in_fw"
    /\ mutex = 1
    /\ pc[2] = "ioctl_lock"

\* the shutdown notification bbapi_write(0, 0xFF, NULL, 0) has been handed
\* to the firmware
Notified == unload # "no" /\ (call[1] = ExitCall => eff[1].fw = 1)

\* C23 as stated: the shutdown notification is the last firmware invocation
\* of a run; between sending it and releasing the image buffer, and
\* afterwards, no further firmware invocation (capability probe or other)
\* begins.
C23_NotificationLast ==
    [][Notified => fw_active' \subseteq fw_active]_vars

\* C24 as stated: in every reachable state a published (non-null) entry
\* pointer points into an image buffer that is still allocated, whether the
\* state was reached through a successful startup, a startup rolled back
\* after a late failure (device registration), or shutdown.
C24_EntryIntoLiveImage ==
    entry # NULL => memory = ALLOCATED

\* C27 as stated: when bbapi_exit or the rollback of bbapi_init_module has
\* run to its end, each optional platform device (bbapi_power, bbapi_sups)
\* has been unregistered if and only if it was registered at startup,
\* whatever the firmware answers to the capability probes.
C27_UnregisterIffRegistered ==
    life.stage \in {"unloaded", "init_failed"}
    => life.unregistered = life.startup

====
